---- MODULE Spec2Model ----
(***************************************************************************)
(* Order placement and fulfilment workflow of the fincart backend:         *)
(* OrderViewSet (create, update_status, cancel, create_refund), the Order  *)
(* model's save(), the refund validation and the cart the orders are       *)
(* created from.  The database is the state; every HTTP handler is an      *)
(* action, split where the handler reads a row and writes it back later    *)
(* without a lock, so that two requests interleave as they do in the       *)
(* request-per-thread deployment.                                          *)
(***************************************************************************)
EXTENDS Integers, Sequences, FiniteSets, TLC

(* ------------------------------------------------------------------ *)
(* Bounds                                                              *)
(* ------------------------------------------------------------------ *)
\* total_amount of the orders the database starts with, in currency units
MaxTotal == 2
\* OrderRefund rows kept per order
MaxRefunds == 2
\* OrderStatusHistory rows kept per order
MaxHist == 3
\* largest quantity of a cart line
MaxQty == 2
\* order numbers the generator draws from (FC + 8 digits in the source)
MaxOrderNumber == 2
\* collisions of one order-number generation that are followed
MaxDraws == 3

None == "none"

\* users: alice is a buyer, sam a seller, stan a staff member
Users == {"alice", "sam", "stan"}
Buyers == {"alice"}
is_seller(u) == u = "sam"
is_staff(u) == u = "stan"

\* primary keys an Order row can take (uuid4 values); o1 is in the database
\* from the start, o2 is a key a new instance may draw
OrderIds == {"o1", "o2"}
Reqs == {1, 2}
\* cart lines: product p1 without variant, product p2 in variant v
Lines == {"p1", "p2"}
SellerOf(l) == "sam"
Variant(l) == IF l = "p2" THEN "v" ELSE None
\* ProductVariant.price_adjustment of the variant, in 1/100
PriceAdjustment(v) == IF v = "v" THEN 100 ELSE 0

ORDER_STATUS ==
    {"pending", "confirmed", "processing", "shipped", "delivered", "cancelled", "refunded"}
REFUND_STATUS == {"pending", "processing", "completed", "failed"}

VARIABLES
    orders,     \* orders_order rows: OrderIds -> row, or NoOrder
    items,      \* orders_orderitem rows of each order
    history,    \* orders_orderstatushistory rows of each order, oldest first
    refunds,    \* orders_orderrefund rows of each order, oldest first
    carts,      \* cart_cart / cart_cartitem: buyer -> NoCart or line -> quantity
    debits,     \* debit requests the wallet service accepted
    products,   \* products_product rows: price and name of each product
    slots,      \* requests in flight between their read and their write
    resp        \* the step just taken and the response it returned

vars == <<orders, items, history, refunds, carts, debits, products, slots, resp>>

\* Product.price is read from the catalog row each time it is used
Price(l) == products[l].price
\* prices a seller may give a product, in 1/100 of the currency unit
ProductPrices == {400, 1000}
\* names a seller may give a product
ProductNames == {"mug", "cup"}

NoOrder == [exists |-> FALSE]
NoCart == [exists |-> FALSE]
Idle == [kind |-> "idle"]

Exists(o) == orders[o].exists

RECURSIVE SumAmounts(_)
SumAmounts(s) == IF s = <<>> THEN 0 ELSE Head(s).amount + SumAmounts(Tail(s))

SelectStatus(s, sts) == SelectSeq(s, LAMBDA r : r.status \in sts)

(* ------------------------------------------------------------------ *)
(* orders/serializers.py, orders/models.py: pure parts                 *)
(* ------------------------------------------------------------------ *)
\* mutant: a delivered order may be moved back to shipped
valid_transitions_reopen(s) ==
    CASE s = "pending" -> {"confirmed", "cancelled"}
      [] s = "confirmed" -> {"processing", "cancelled"}
      [] s = "processing" -> {"shipped", "cancelled"}
      [] s = "shipped" -> {"delivered"}
      [] s = "delivered" -> {"shipped"}
      [] s = "cancelled" -> {"refunded"}
      [] OTHER -> {}

valid_transitions(s) ==
    CASE s = "pending" -> {"confirmed", "cancelled"}
      [] s = "confirmed" -> {"processing", "cancelled"}
      [] s = "processing" -> {"shipped", "cancelled"}
      [] s = "shipped" -> {"delivered"}
      [] s = "delivered" -> {}
      [] s = "cancelled" -> {"refunded"}
      [] s = "refunded" -> {}
      [] OTHER -> {}

\* OrderStatusUpdateSerializer.validate_status on the instance the view read
validate_status(order, value) == value \in valid_transitions(order.status)

\* mutant: an order being processed may still be cancelled
can_be_cancelled_late(order) == order.status \in {"pending", "confirmed", "processing"}

can_be_cancelled(order) == order.status \in {"pending", "confirmed"}

\* mutant: the status of the order is not looked at
can_be_refunded_any_status(order) ==
    order.payment_status = "paid" /\ order.status \notin {}

can_be_refunded(order) ==
    order.payment_status = "paid" /\ order.status \notin {"cancelled", "refunded"}

\* OrderViewSet.get_queryset: a seller sees the orders holding one of their
\* products, everybody else their own orders
get_queryset(u) ==
    IF is_seller(u)
    THEN {o \in OrderIds : Exists(o) /\ \E it \in items[o] : it.seller = u}
    ELSE {o \in OrderIds : Exists(o) /\ orders[o].user = u}

(* ------------------------------------------------------------------ *)
(* Order.save (orders/models.py 119-136)                               *)
(* ------------------------------------------------------------------ *)
\* Order.generate_order_number: the numbers no row of the table carries; the
\* loop re-rolls until it draws one of them
generate_order_number(rows) ==
    {n \in 1..MaxOrderNumber :
        \A o \in OrderIds : rows[o].exists => rows[o].order_number # n}

\* the timestamp branch of Order.save, taken when the stored status differs
StampMilestone(inst, now) ==
    CASE inst.status = "confirmed" /\ inst.confirmed_at = None ->
            [inst EXCEPT !.confirmed_at = now]
      [] inst.status = "shipped" /\ inst.shipped_at = None ->
            [inst EXCEPT !.shipped_at = now]
      [] inst.status = "delivered" /\ inst.delivered_at = None ->
            [inst EXCEPT !.delivered_at = now]
      [] inst.status = "cancelled" /\ inst.cancelled_at = None ->
            [inst EXCEPT !.cancelled_at = now]
      [] OTHER -> inst

\* Order.save on the instance inst with primary key pk against the table rows.
\* The key is a UUIDField with default uuid4 (models.py 29), so self.pk is set
\* on every instance, saved or not, and line 125 looks the row up each time:
\* Order.objects.get raises DoesNotExist when the table has no such row.
\* The result is the row written by super().save(), or raised.
Order_save(rows, pk, inst, now) ==
    IF pk = None
    THEN [raised |-> FALSE, row |-> inst]
    ELSE IF ~rows[pk].exists
         THEN [raised |-> TRUE, row |-> inst]
         ELSE [raised |-> FALSE,
               row |-> IF rows[pk].status # inst.status
                       THEN StampMilestone(inst, now)
                       ELSE inst]

\* OrderViewSet.create_status_history
create_status_history(hist, status, user) ==
    Append(hist, [status |-> status, by |-> user])

\* the instance a handler holds after order = self.get_object()
get_object(o) == orders[o]

Respond(kind, code, u, o, arg) ==
    resp' = [kind |-> kind, code |-> code, order |-> o, arg |-> arg]

\* a request thread takes the first free slot
FirstIdle(r) == slots[r] = Idle /\ \A q \in Reqs : q < r => slots[q] # Idle

InFlight(o) == Cardinality({r \in Reqs : slots[r].kind # "idle" /\ slots[r].order = o})

\* Order.save, lines 120-121: a new instance has no order_number, so save
\* enters generate_order_number; arg counts the collisions so far
GenerateBegin(r, u) ==
    /\ FirstIdle(r)
    /\ slots' = [slots EXCEPT ![r] =
            [kind |-> "generate_order_number", user |-> u, order |-> None,
             snap |-> None, arg |-> 0]]
    /\ UNCHANGED <<orders, items, history, refunds, carts, debits, products>>
    /\ Respond("generate_order_number", 0, u, None, None)

\* one pass of the while True loop (models.py 141-147): draw eight random
\* digits, return the number if no row carries it, else go round again; the
\* loop has no other exit
GenerateDraw(r, d) ==
    /\ slots[r].kind = "generate_order_number"
    /\ UNCHANGED <<orders, items, history, refunds, carts, debits, products>>
    /\ IF d \in generate_order_number(orders)
       THEN /\ slots' = [slots EXCEPT ![r] = Idle]
            /\ Respond("generate_order_number", 200, slots[r].user, None, d)
       ELSE /\ slots[r].arg < MaxDraws
            /\ slots' = [slots EXCEPT ![r].arg = @ + 1]
            /\ Respond("generate_order_number", 0, slots[r].user, None, d)

(* ------------------------------------------------------------------ *)
(* OrderViewSet.update_status (orders/views.py 224-265)                *)
(* ------------------------------------------------------------------ *)
\* lines 227-243: read the order, check the requester, validate the status
UpdateStatusBegin(r, u, o, new) ==
    /\ FirstIdle(r)
    /\ UNCHANGED <<orders, items, history, refunds, carts, debits, products>>
    /\ IF o \notin get_queryset(u)
       THEN Respond("update_status", 404, u, None, None) /\ UNCHANGED slots
       ELSE IF ~is_staff(u) /\ ~is_seller(u)
       THEN Respond("update_status", 403, u, o, None) /\ UNCHANGED slots
       ELSE IF ~validate_status(get_object(o), new)
       THEN Respond("update_status", 400, u, o, new) /\ UNCHANGED slots
       ELSE /\ Len(history[o]) + InFlight(o) < MaxHist
            /\ slots' = [slots EXCEPT ![r] =
                    [kind |-> "update_status", user |-> u, order |-> o,
                     snap |-> get_object(o), arg |-> new]]
            /\ Respond("update_status", 0, u, o, new)

\* lines 245-263: write the instance back and append the history row
UpdateStatusCommit(r) ==
    /\ slots[r].kind = "update_status"
    /\ LET s == slots[r]
           o == s.order
           sv == Order_save(orders, o, [s.snap EXCEPT !.status = s.arg], "save")
       IN /\ slots' = [slots EXCEPT ![r] = Idle]
          /\ UNCHANGED <<items, refunds, carts, debits, products>>
          /\ IF sv.raised
             THEN /\ UNCHANGED <<orders, history>>
                  /\ Respond("update_status", 500, s.user, o, s.arg)
             ELSE /\ orders' = [orders EXCEPT ![o] = sv.row]
                  /\ history' = [history EXCEPT ![o] =
                        create_status_history(history[o], s.arg, s.user)]
                  /\ Respond("update_status", 200, s.user, o, s.arg)

(* ------------------------------------------------------------------ *)
(* OrderViewSet.cancel (orders/views.py 267-321)                       *)
(* ------------------------------------------------------------------ *)
\* mutant: a new refund row starts as processing
OrderRefund_processing(amount, user, auto) ==
    [amount |-> amount, status |-> "processing", by |-> user, auto |-> auto]

\* a new OrderRefund row: status takes the model default (models.py 278)
OrderRefund(amount, user, auto) ==
    [amount |-> amount, status |-> "pending", by |-> user, auto |-> auto]

\* mutant: the automatic refund leaves one unit out
process_refund_for_cancellation_partial(rfs, order, user) ==
    Append(rfs, OrderRefund(order.total_amount - 1, user, TRUE))

\* OrderRefund.objects.create of process_refund_for_cancellation: the full
\* order total
process_refund_for_cancellation(rfs, order, user) ==
    Append(rfs, OrderRefund(order.total_amount, user, TRUE))

\* mutant: the owner-or-staff test is left out
CancelBegin_no_owner_check(r, u, o) ==
    /\ FirstIdle(r)
    /\ UNCHANGED <<orders, items, history, refunds, carts, debits, products>>
    /\ IF o \notin get_queryset(u)
       THEN Respond("cancel", 404, u, None, None) /\ UNCHANGED slots
       ELSE IF ~can_be_cancelled(get_object(o))
       THEN Respond("cancel", 400, u, o, None) /\ UNCHANGED slots
       ELSE /\ Len(history[o]) + InFlight(o) < MaxHist
            /\ Len(refunds[o]) + InFlight(o) < MaxRefunds
            /\ slots' = [slots EXCEPT ![r] =
                    [kind |-> "cancel", user |-> u, order |-> o,
                     snap |-> get_object(o), arg |-> None]]
            /\ Respond("cancel", 0, u, o, None)

\* lines 270-286: read the order, can_be_cancelled, owner or staff
CancelBegin(r, u, o) ==
    /\ FirstIdle(r)
    /\ UNCHANGED <<orders, items, history, refunds, carts, debits, products>>
    /\ IF o \notin get_queryset(u)
       THEN Respond("cancel", 404, u, None, None) /\ UNCHANGED slots
       ELSE IF ~can_be_cancelled(get_object(o))
       THEN Respond("cancel", 400, u, o, None) /\ UNCHANGED slots
       ELSE IF get_object(o).user # u /\ ~is_staff(u)
       THEN Respond("cancel", 403, u, o, None) /\ UNCHANGED slots
       ELSE /\ Len(history[o]) + InFlight(o) < MaxHist
            /\ Len(refunds[o]) + InFlight(o) < MaxRefunds
            /\ slots' = [slots EXCEPT ![r] =
                    [kind |-> "cancel", user |-> u, order |-> o,
                     snap |-> get_object(o), arg |-> None]]
            /\ Respond("cancel", 0, u, o, None)

\* lines 288-302: status and cancelled_at on the instance read before, save,
\* history row, refund row when the instance says paid
CancelCommit(r) ==
    /\ slots[r].kind = "cancel"
    /\ LET s == slots[r]
           o == s.order
           sv == Order_save(orders, o,
                    [s.snap EXCEPT !.status = "cancelled", !.cancelled_at = "view"],
                    "save")
       IN /\ slots' = [slots EXCEPT ![r] = Idle]
          /\ UNCHANGED <<items, carts, debits, products>>
          /\ IF sv.raised
             THEN /\ UNCHANGED <<orders, history, refunds>>
                  /\ Respond("cancel", 500, s.user, o, None)
             ELSE /\ orders' = [orders EXCEPT ![o] = sv.row]
                  /\ history' = [history EXCEPT ![o] =
                        create_status_history(history[o], "cancelled", s.user)]
                  /\ refunds' = IF sv.row.payment_status = "paid"
                                THEN [refunds EXCEPT ![o] =
                                        process_refund_for_cancellation(
                                            refunds[o], sv.row, s.user)]
                                ELSE refunds
                  /\ Respond("cancel", 200, s.user, o, None)

(* ------------------------------------------------------------------ *)
(* OrderViewSet.create_refund (orders/views.py 323-359)                *)
(* ------------------------------------------------------------------ *)
\* the aggregate of validate_amount: refunds completed or being processed
existing_refunds(rfs) == SumAmounts(SelectStatus(rfs, {"completed", "processing"}))

\* mutant: only the order total is checked, not the refunds already made
validate_amount_total_only(order, rfs, value) ==
    /\ value >= 1
    /\ ~(value > order.total_amount)

\* OrderRefundCreateSerializer: the amount field's MinValueValidator(0.01),
\* then validate_amount against the order total and the existing refunds
validate_amount(order, rfs, value) ==
    /\ value >= 1
    /\ ~(value > order.total_amount)
    /\ ~(existing_refunds(rfs) + value > order.total_amount)

\* lines 326-347: read the order, staff or seller, can_be_refunded, validation
RefundBegin(r, u, o, amount) ==
    /\ FirstIdle(r)
    /\ UNCHANGED <<orders, items, history, refunds, carts, debits, products>>
    /\ IF o \notin get_queryset(u)
       THEN Respond("create_refund", 404, u, None, None) /\ UNCHANGED slots
       ELSE IF ~is_staff(u) /\ ~is_seller(u)
       THEN Respond("create_refund", 403, u, o, None) /\ UNCHANGED slots
       ELSE IF ~can_be_refunded(get_object(o))
       THEN Respond("create_refund", 400, u, o, amount) /\ UNCHANGED slots
       ELSE IF ~validate_amount(get_object(o), refunds[o], amount)
       THEN Respond("create_refund", 400, u, o, amount) /\ UNCHANGED slots
       ELSE /\ Len(refunds[o]) + InFlight(o) < MaxRefunds
            /\ slots' = [slots EXCEPT ![r] =
                    [kind |-> "create_refund", user |-> u, order |-> o,
                     snap |-> get_object(o), arg |-> amount]]
            /\ Respond("create_refund", 0, u, o, amount)

\* lines 348-357: serializer.save inserts the row, status at the model default;
\* the insert fails on the foreign key when the order row is gone
RefundCommit(r) ==
    /\ slots[r].kind = "create_refund"
    /\ LET s == slots[r]
           o == s.order
       IN /\ slots' = [slots EXCEPT ![r] = Idle]
          /\ UNCHANGED <<orders, items, history, carts, debits, products>>
          /\ IF ~Exists(o)
             THEN /\ UNCHANGED refunds
                  /\ Respond("create_refund", 500, s.user, o, s.arg)
             ELSE /\ refunds' = [refunds EXCEPT ![o] =
                        Append(refunds[o], OrderRefund(s.arg, s.user, FALSE))]
                  /\ Respond("create_refund", 201, s.user, o, s.arg)

(* ------------------------------------------------------------------ *)
(* DELETE on the viewset (orders/views.py 23: ModelViewSet)            *)
(* ------------------------------------------------------------------ *)
\* OrderViewSet inherits destroy from ModelViewSet and does not override it:
\* get_object on the requester's queryset, then instance.delete(), which
\* cascades to the items, history rows and refunds (models.py 165, 237, 271)
Destroy(u, o) ==
    /\ UNCHANGED <<carts, debits, products, slots>>
    /\ IF o \notin get_queryset(u)
       THEN /\ UNCHANGED <<orders, items, history, refunds>>
            /\ Respond("destroy", 404, u, None, None)
       ELSE /\ orders' = [orders EXCEPT ![o] = NoOrder]
            /\ items' = [items EXCEPT ![o] = {}]
            /\ history' = [history EXCEPT ![o] = <<>>]
            /\ refunds' = [refunds EXCEPT ![o] = <<>>]
            /\ Respond("destroy", 204, u, o, None)

(* ------------------------------------------------------------------ *)
(* Catalog (products/views.py 54-95, products/models.py 113)           *)
(* ------------------------------------------------------------------ *)
\* mutant: the edit is copied into the order lines of the product
EditProduct_resync(u, l, p, nm) ==
    /\ is_seller(u)
    /\ SellerOf(l) = u
    /\ [price |-> p, name |-> nm] # products[l]
    /\ products' = [products EXCEPT ![l] = [price |-> p, name |-> nm]]
    /\ items' = [o \in OrderIds |->
            {IF it.line = l
             THEN [it EXCEPT !.unit_price = p, !.total_price = p * it.quantity,
                             !.product_name = nm]
             ELSE it : it \in items[o]}]
    /\ UNCHANGED <<orders, history, refunds, carts, debits, slots>>
    /\ Respond("edit_product", 200, u, None, l)

\* ProductViewSet update by the product's seller: writes the product row only
EditProduct(u, l, p, nm) ==
    /\ is_seller(u)
    /\ SellerOf(l) = u
    /\ [price |-> p, name |-> nm] # products[l]
    /\ products' = [products EXCEPT ![l] = [price |-> p, name |-> nm]]
    /\ UNCHANGED <<orders, items, history, refunds, carts, debits, slots>>
    /\ Respond("edit_product", 200, u, None, l)

(* ------------------------------------------------------------------ *)
(* Cart (cart/models.py, cart/serializers.py, cart/views.py)           *)
(* ------------------------------------------------------------------ *)
EmptyCart == [exists |-> TRUE, qty |-> [l \in Lines |-> 0]]

CartLines(c) == {l \in Lines : c.qty[l] > 0}

\* CartItem.get_unit_price / get_total_price
get_unit_price(l) ==
    IF Variant(l) # None THEN Price(l) + PriceAdjustment(Variant(l)) ELSE Price(l)
get_total_price(c, l) == get_unit_price(l) * c.qty[l]

RECURSIVE SumLines(_, _)
SumLines(c, ls) ==
    IF ls = {} THEN 0
    ELSE LET l == CHOOSE x \in ls : TRUE
         IN get_total_price(c, l) + SumLines(c, ls \ {l})

\* Cart.get_total_price
cart_total_price(c) == SumLines(c, CartLines(c))

\* CartViewSet.add_item with CartItemCreateSerializer.create: get_or_create
\* the cart, then add to the line's quantity or create the line
AddItem(u, l, q) ==
    /\ LET c == IF carts[u].exists THEN carts[u] ELSE EmptyCart
       IN /\ c.qty[l] + q <= MaxQty
          /\ carts' = [carts EXCEPT ![u] = [c EXCEPT !.qty[l] = c.qty[l] + q]]
    /\ UNCHANGED <<orders, items, history, refunds, debits, products, slots>>
    /\ Respond("add_item", 201, u, None, None)

\* CartViewSet.clear: get_or_create the cart, Cart.clear deletes its items
ClearCart(u) ==
    /\ carts' = [carts EXCEPT ![u] = EmptyCart]
    /\ UNCHANGED <<orders, items, history, refunds, debits, products, slots>>
    /\ Respond("clear", 200, u, None, None)

(* ------------------------------------------------------------------ *)
(* OrderViewSet.create (orders/views.py 53-222)                        *)
(* ------------------------------------------------------------------ *)
\* outcomes of process_payment: HTTP 200, or one of the failures it catches
PaymentResults == {"ok", "timeout", "connection_error", "rejected", "exception"}

\* a Decimal with five places written to a DecimalField(decimal_places=2):
\* x is in 1/100000, the result in 1/100; ties round to even or up, as the
\* database backend does
Quantize(x, mode) ==
    LET q == x \div 1000
        rem == x % 1000
    IN IF rem < 500 THEN q
       ELSE IF rem > 500 THEN q + 1
       ELSE IF mode = "half_even" /\ q % 2 = 0 THEN q ELSE q + 1

\* mutant: the emptiness test of the cart is left out
get_user_cart_no_empty_check(u) ==
    IF ~carts[u].exists THEN "Cart not found" ELSE "ok"

\* OrderViewSet.get_user_cart
get_user_cart(u) ==
    IF ~carts[u].exists THEN "Cart not found"
    ELSE IF CartLines(carts[u]) = {} THEN "Cart is empty"
    ELSE "ok"

\* shipping costs a create request may carry, in 1/100
RequestShipping == {0, 300}

\* the body of a create request
RequestData(addrOk, ship) == [shipping_address_id |-> addrOk, shipping_cost |-> ship]

\* OrderCreateSerializer: validated_data holds the declared fields only
OrderCreateFields ==
    {"shipping_address_id", "billing_address_id", "shipping_method",
     "payment_method", "customer_notes"}

validated_data(data) == [f \in (DOMAIN data) \cap OrderCreateFields |-> data[f]]

\* create_order_from_cart, lines 125-129: the amounts as Decimals, before
\* they are written; subtotal and shipping_cost in 1/100, tax_amount and
\* total_amount in 1/100000
order_amounts(c, vd) ==
    LET subtotal == cart_total_price(c)
        shipping_cost == IF "shipping_cost" \in DOMAIN vd THEN vd.shipping_cost ELSE 0
        tax_amount == subtotal * 125
    IN [subtotal |-> subtotal, shipping_cost |-> shipping_cost,
        tax_amount |-> tax_amount,
        total_amount |-> subtotal * 1000 + shipping_cost * 1000 + tax_amount]

\* the Order instance create_order_from_cart builds (lines 125-143)
NewOrder(u, c, n, mode, vd) ==
    LET a == order_amounts(c, vd)
    IN [exists |-> TRUE, user |-> u, order_number |-> n,
        status |-> "pending", payment_status |-> "pending",
        subtotal |-> a.subtotal, shipping_cost |-> a.shipping_cost,
        tax_amount |-> Quantize(a.tax_amount, mode), discount_amount |-> 0,
        total_amount |-> Quantize(a.total_amount, mode),
        confirmed_at |-> None, shipped_at |-> None,
        delivered_at |-> None, cancelled_at |-> None]

\* the OrderItem rows of lines 146-161
NewItems(c) ==
    {[line |-> l, quantity |-> c.qty[l], unit_price |-> get_unit_price(l),
      total_price |-> get_total_price(c, l), product_name |-> products[l].name,
      seller |-> SellerOf(l)] :
        l \in CartLines(c)}

\* The whole handler.  Everything between get_user_cart and the response runs
\* in one transaction.atomic block: an exception rolls it back (500), a
\* response returned from inside the block commits it.  pk is the uuid4 the
\* new instance draws, n the order number save() generates before it looks
\* the row up.
Create(u, addrOk, ship) ==
    /\ UNCHANGED <<slots, products>>
    /\ IF ~addrOk
       THEN /\ Respond("create", 400, u, None, "Invalid shipping address")
            /\ UNCHANGED <<orders, items, history, refunds, carts, debits>>
       ELSE IF get_user_cart(u) # "ok"
       THEN /\ Respond("create", 500, u, None, get_user_cart(u))
            /\ UNCHANGED <<orders, items, history, refunds, carts, debits>>
       ELSE
       \E pk \in {o \in OrderIds : ~Exists(o)}, n \in generate_order_number(orders) :
       LET c == carts[u]
           vd == validated_data(RequestData(addrOk, ship))
           created == Order_save(orders, pk, NewOrder(u, c, n, "half_even", vd), "save")
       IN IF created.raised
          THEN /\ Respond("create", 500, u, None, "DoesNotExist")
               /\ UNCHANGED <<orders, items, history, refunds, carts, debits>>
          ELSE
          \E pay \in PaymentResults, mode \in {"half_even", "half_up"} :
          LET order == NewOrder(u, c, n, mode, vd)
              inserted == [orders EXCEPT ![pk] = order]
              hist == create_status_history(<<>>, "pending", u)
              paid == [order EXCEPT !.payment_status = "paid",
                          !.status = "confirmed", !.confirmed_at = "view"]
              saved == Order_save(inserted, pk, paid, "save")
          IN IF pay = "ok"
             THEN /\ orders' = [orders EXCEPT ![pk] = saved.row]
                  /\ items' = [items EXCEPT ![pk] = NewItems(c)]
                  /\ history' = [history EXCEPT ![pk] =
                           create_status_history(hist, "confirmed", u)]
                  /\ carts' = [carts EXCEPT ![u] = EmptyCart]
                  /\ debits' = debits \cup {pk}
                  /\ UNCHANGED refunds
                  /\ Respond("create", 201, u, pk, pay)
             ELSE /\ orders' = inserted
                  /\ items' = [items EXCEPT ![pk] = NewItems(c)]
                  /\ history' = [history EXCEPT ![pk] = hist]
                  /\ UNCHANGED <<refunds, carts, debits>>
                  /\ Respond("create", 400, u, pk, pay)

\* create_order_from_cart up to the Order instance it hands to
\* Order.objects.create (lines 125-143): the amounts computed from the cart
\* and the request, applied to every cart and request
CreateOrderFromCart(u, ship) ==
    /\ get_user_cart(u) = "ok"
    /\ UNCHANGED <<orders, items, history, refunds, carts, debits, products, slots>>
    /\ resp' = [kind |-> "create_order_from_cart", code |-> 0, order |-> None,
                arg |-> [user |-> u, shipping_cost |-> ship,
                         amounts |-> order_amounts(carts[u],
                                        validated_data(RequestData(TRUE, ship)))]]

(* ------------------------------------------------------------------ *)
(* The database the handlers start from, and the specification         *)
(* ------------------------------------------------------------------ *)
\* The order table holds one order of alice with one line sold by sam, in any
\* status and payment status, with at most one earlier refund row.
InitOrder(st, ps) ==
    [exists |-> TRUE, user |-> "alice", order_number |-> 1,
     status |-> st, payment_status |-> ps,
     subtotal |-> MaxTotal, shipping_cost |-> 0, tax_amount |-> 0,
     discount_amount |-> 0, total_amount |-> MaxTotal,
     confirmed_at |-> None, shipped_at |-> None,
     delivered_at |-> None, cancelled_at |-> None]

InitRefunds ==
    {<<>>} \cup
    {<<[amount |-> MaxTotal - 1, status |-> rs, by |-> None, auto |-> FALSE]>> :
        rs \in REFUND_STATUS}

Init ==
    /\ \E st \in ORDER_STATUS, ps \in {"pending", "paid"} :
            orders = [o \in OrderIds |->
                        IF o = "o1" THEN InitOrder(st, ps) ELSE NoOrder]
    /\ items = [o \in OrderIds |->
                    IF o = "o1"
                    THEN {[line |-> "p1", quantity |-> 1, unit_price |-> MaxTotal,
                           total_price |-> MaxTotal, product_name |-> "mug",
                           seller |-> SellerOf("p1")]}
                    ELSE {}]
    /\ history = [o \in OrderIds |->
                    IF o = "o1"
                    THEN <<[status |-> orders[o].status, by |-> None]>>
                    ELSE <<>>]
    /\ \E rf \in InitRefunds :
            refunds = [o \in OrderIds |-> IF o = "o1" THEN rf ELSE <<>>]
    /\ carts = [u \in Buyers |-> NoCart]
    /\ debits = {}
    /\ products = [l \in Lines |->
                    [price |-> IF l = "p1" THEN 1000 ELSE 400, name |-> "mug"]]
    /\ slots = [r \in Reqs |-> Idle]
    /\ resp = [kind |-> "init", code |-> 0, order |-> None, arg |-> None]

Amounts == 0..(MaxTotal + 1)

\* the order handlers: update_status, cancel, create_refund and DELETE
Next ==
    \/ \E r \in Reqs, u \in Users, o \in OrderIds, new \in ORDER_STATUS :
            UpdateStatusBegin(r, u, o, new)
    \/ \E r \in Reqs : UpdateStatusCommit(r)
    \/ \E r \in Reqs, u \in Users, o \in OrderIds : CancelBegin(r, u, o)
    \/ \E r \in Reqs : CancelCommit(r)
    \/ \E r \in Reqs, u \in Users, o \in OrderIds, a \in Amounts :
            RefundBegin(r, u, o, a)
    \/ \E r \in Reqs : RefundCommit(r)
    \/ \E u \in Users, o \in OrderIds : Destroy(u, o)

Spec == Init /\ [][Next]_vars

\* the cart, the catalog and order placement.  These handlers neither read
\* nor write what a request of Next holds between its read and its write, and
\* the handlers of Next never touch the cart or the catalog.
NextCheckout ==
    \/ \E u \in Buyers, l \in Lines, q \in 1..MaxQty : AddItem(u, l, q)
    \/ \E u \in Buyers : ClearCart(u)
    \/ \E u \in Buyers, addrOk \in BOOLEAN, ship \in RequestShipping :
            Create(u, addrOk, ship)
    \/ \E u \in Users, l \in Lines, p \in ProductPrices, nm \in ProductNames :
            EditProduct(u, l, p, nm)
    \/ \E u \in Users, o \in OrderIds : Destroy(u, o)

SpecCheckout == Init /\ [][NextCheckout]_vars

\* the amounts of create_order_from_cart over the carts, the catalog and the
\* requests
NextAmounts ==
    \/ \E u \in Buyers, l \in Lines, q \in 1..MaxQty : AddItem(u, l, q)
    \/ \E u \in Users, l \in Lines, p \in ProductPrices, nm \in ProductNames :
            EditProduct(u, l, p, nm)
    \/ \E u \in Buyers, ship \in RequestShipping : CreateOrderFromCart(u, ship)

SpecAmounts == Init /\ [][NextAmounts]_vars

\* order-number generation against the order table
NextNumbering ==
    \/ \E r \in Reqs, u \in Buyers : GenerateBegin(r, u)
    \/ \E r \in Reqs, d \in 1..MaxOrderNumber : GenerateDraw(r, d)
    \/ \E u \in Users, o \in OrderIds : Destroy(u, o)

SpecNumbering == Init /\ [][NextNumbering]_vars

(* ------------------------------------------------------------------ *)
(* Properties                                                          *)
(* ------------------------------------------------------------------ *)
\* the transition table of the specification, section 4.4
TransitionTable(s) ==
    CASE s = "pending" -> {"confirmed", "cancelled"}
      [] s = "confirmed" -> {"processing", "cancelled"}
      [] s = "processing" -> {"shipped", "cancelled"}
      [] s = "shipped" -> {"delivered"}
      [] s = "delivered" -> {}
      [] s = "cancelled" -> {"refunded"}
      [] s = "refunded" -> {}

DatabaseUnchanged ==
    /\ orders' = orders
    /\ items' = items
    /\ history' = history
    /\ refunds' = refunds

\* the step is update_status answering a request (not the write of a request
\* validated earlier)
UpdateStatusAnswered ==
    resp'.kind = "update_status" /\ resp'.code \notin {200, 500}

\* C1: an update_status request for a status outside the transition-table
\* entry of the order's current status is rejected: it is answered 400, no
\* write is left pending, and the order's status and history rows stay as
\* they were; a request answered 403 or 404 changes nothing either.
C1_IllegalTransitionRejected ==
    [][ UpdateStatusAnswered =>
          /\ (resp'.code \in {400, 403, 404} => DatabaseUnchanged /\ slots' = slots)
          /\ (/\ resp'.order \in OrderIds
              /\ resp'.arg \in ORDER_STATUS
              /\ resp'.arg \notin TransitionTable(orders[resp'.order].status))
                => /\ resp'.code = 400
                   /\ DatabaseUnchanged
                   /\ slots' = slots ]_vars

\* C1 witness: a delivered order was asked to become shipped and the request
\* was answered 400
C1_Witness ==
    /\ resp.kind = "update_status"
    /\ resp.code = 400
    /\ resp.arg = "shipped"
    /\ resp.order \in OrderIds
    /\ orders[resp.order].status = "delivered"

CountedRefunds(o) == SumAmounts(SelectStatus(refunds[o], {"completed", "processing"}))

\* C2: for every order the amounts of its completed and processing refunds
\* sum to at most the order's total_amount.
C2_RefundLedgerWithinTotal ==
    \A o \in OrderIds : Exists(o) => CountedRefunds(o) <= orders[o].total_amount

\* C2 witness: an order with a completed refund got a further refund row from
\* a cancellation, and all its rows together exceed the total
C2_Witness ==
    \E o \in OrderIds :
        /\ Exists(o)
        /\ CountedRefunds(o) > 0
        /\ \E i \in 1..Len(refunds[o]) : refunds[o][i].auto
        /\ SumAmounts(refunds[o]) > orders[o].total_amount

\* C10: two create_refund requests on one order that have both passed
\* validation never ask together for more than the balance left.
C10_NoTwoRefundsPastBalance ==
    \A r, q \in Reqs :
        (/\ r # q
         /\ slots[r].kind = "create_refund"
         /\ slots[q].kind = "create_refund"
         /\ slots[r].order = slots[q].order)
        => slots[r].arg + slots[q].arg
              <= orders[slots[r].order].total_amount - CountedRefunds(slots[r].order)

CancelAnswered ==
    resp'.kind = "cancel" /\ resp'.code \notin {200, 500}

\* C11: a cancel request for an order whose status is not pending or
\* confirmed is rejected with 400, and the order (status, cancelled_at), its
\* history rows and its refund rows stay as they were; a request answered
\* 403 or 404 changes nothing either, so cancel goes on to write only for a
\* pending or confirmed order.
C11_CancelOnlyPendingOrConfirmed ==
    [][ CancelAnswered =>
          /\ (resp'.code \in {400, 403, 404} => DatabaseUnchanged /\ slots' = slots)
          /\ (/\ resp'.order \in OrderIds
              /\ orders[resp'.order].status \notin {"pending", "confirmed"})
                => /\ resp'.code = 400
                   /\ DatabaseUnchanged
                   /\ slots' = slots ]_vars

\* C11 witness: cancel of a shipped order was answered 400
C11_Witness ==
    /\ resp.kind = "cancel"
    /\ resp.code = 400
    /\ resp.order \in OrderIds
    /\ orders[resp.order].status = "shipped"

RefundAnswered ==
    resp'.kind = "create_refund" /\ resp'.code \notin {201, 500}

\* C13: a create_refund request for an order that is not paid, or that is
\* cancelled or refunded, is rejected (400, or 403 for a requester who may
\* not refund at all) and no refund row is created; every row create_refund
\* inserts belongs to a request that read a paid order neither cancelled nor
\* refunded.
C13_RefundOnlyPaidOpenOrder ==
    [][ /\ RefundAnswered =>
            /\ (resp'.code \in {400, 403, 404} => DatabaseUnchanged /\ slots' = slots)
            /\ (/\ resp'.order \in OrderIds
                /\ ~(/\ orders[resp'.order].payment_status = "paid"
                     /\ orders[resp'.order].status \notin {"cancelled", "refunded"}))
                  => /\ resp'.code \in {400, 403}
                     /\ DatabaseUnchanged
                     /\ slots' = slots
        /\ (resp'.kind = "create_refund" /\ resp'.code = 201) =>
            \E r \in Reqs :
                /\ slots[r].kind = "create_refund"
                /\ slots'[r] = Idle
                /\ slots[r].snap.payment_status = "paid"
                /\ slots[r].snap.status \notin {"cancelled", "refunded"} ]_vars

\* C13 witness: a refund of a paid, cancelled order was asked for by a seller
\* or staff member and answered 400
C13_Witness ==
    /\ resp.kind = "create_refund"
    /\ resp.code = 400
    /\ resp.order \in OrderIds
    /\ orders[resp.order].payment_status = "paid"
    /\ orders[resp.order].status = "cancelled"

\* C14: create_refund answers 400 and writes nothing for an amount that is
\* not positive or that exceeds total_amount minus the completed and
\* processing refunds; a request it accepts adds exactly one refund row, in
\* status pending, for the amount asked.
C14_RefundAmountWithinBalance ==
    [][ /\ (/\ RefundAnswered
            /\ resp'.order \in OrderIds
            /\ resp'.code # 403
            /\ \/ resp'.arg <= 0
               \/ resp'.arg > orders[resp'.order].total_amount
                                - CountedRefunds(resp'.order))
              => /\ resp'.code = 400
                 /\ DatabaseUnchanged
                 /\ slots' = slots
        /\ (resp'.kind = "create_refund" /\ resp'.code = 201) =>
              LET o == resp'.order
                  n == Len(refunds[o])
              IN /\ Len(refunds'[o]) = n + 1
                 /\ SubSeq(refunds'[o], 1, n) = refunds[o]
                 /\ refunds'[o][n + 1].status = "pending"
                 /\ refunds'[o][n + 1].amount = resp'.arg
                 /\ \A p \in OrderIds \ {o} : refunds'[p] = refunds[p]
                 /\ orders' = orders /\ history' = history /\ items' = items ]_vars

\* C14 witness: with a completed refund on the order, a request for an amount
\* within the order total but above what is left was answered 400
C14_Witness ==
    /\ resp.kind = "create_refund"
    /\ resp.code = 400
    /\ resp.order \in OrderIds
    /\ LET o == resp.order
       IN /\ orders[o].payment_status = "paid"
          /\ orders[o].status \notin {"cancelled", "refunded"}
          /\ \E i \in 1..Len(refunds[o]) : refunds[o][i].status = "completed"
          /\ resp.arg <= orders[o].total_amount
          /\ resp.arg > orders[o].total_amount - CountedRefunds(o)

\* the step is the write of a status transition that was accepted
TransitionWritten ==
    resp'.kind \in {"update_status", "cancel"} /\ resp'.code = 200

\* C15: the history of an order only grows at its end, in every step; a step
\* that writes an accepted transition (update_status, cancel, the payment
\* confirmation of create) appends exactly one row, carrying the order's new
\* status and the requesting user.
C15_HistoryAppendOnly ==
    [][ /\ \A o \in OrderIds :
              /\ Len(history'[o]) >= Len(history[o])
              /\ SubSeq(history'[o], 1, Len(history[o])) = history[o]
        /\ TransitionWritten =>
              LET o == resp'.order
                  n == Len(history[o])
              IN /\ Len(history'[o]) = n + 1
                 /\ history'[o][n + 1].status = orders'[o].status
                 /\ \E r \in Reqs :
                        /\ slots[r].kind = resp'.kind
                        /\ slots'[r] = Idle
                        /\ history'[o][n + 1].by = slots[r].user
        /\ (resp'.kind = "create" /\ resp'.code = 201) =>
              LET o == resp'.order
                  n == Len(history'[o])
              IN /\ n = 2
                 /\ history'[o][n].status = "confirmed"
                 /\ orders'[o].status = "confirmed" ]_vars

\* C16: an order row that is in the table is in the table after every step.
C16_OrderNeverDeleted ==
    [][ \A o \in OrderIds : orders[o].exists => orders'[o].exists ]_vars

\* C17: a create request of a user who has no cart, or a cart without items,
\* fails with the cart error, persists no order, item or history row, issues
\* no debit and leaves the cart as it was.
C17_EmptyCartNoSideEffects ==
    [][ (/\ resp'.kind = "create"
         /\ resp'.code # 400
         /\ \A u \in Buyers : ~carts[u].exists \/ \A l \in Lines : carts[u].qty[l] = 0)
          => /\ resp'.code = 500
             /\ resp'.arg \in {"Cart not found", "Cart is empty"}
             /\ resp'.order = None
             /\ DatabaseUnchanged
             /\ carts' = carts
             /\ debits' = debits ]_vars

\* C17 witness: a create request on a cart that exists and holds no item
\* was answered with the cart error
C17_Witness ==
    /\ resp.kind = "create"
    /\ resp.arg = "Cart is empty"
    /\ \E u \in Buyers : carts[u].exists /\ \A l \in Lines : carts[u].qty[l] = 0

\* C18: update_status goes on to write only for a staff user or a seller,
\* cancel only for the order's owner or a staff user; a request answered 403
\* leaves the order, its history and its refunds as they were, and the actor
\* of every history row written is the owner, a staff user or a seller.
C18_TransitionsAuthorized ==
    [][ /\ \A r \in Reqs :
              /\ (slots[r] = Idle /\ slots'[r].kind = "update_status")
                    => slots'[r].user \in {"sam", "stan"}
              /\ (slots[r] = Idle /\ slots'[r].kind = "cancel")
                    => \/ slots'[r].user = orders[slots'[r].order].user
                       \/ slots'[r].user = "stan"
        /\ (resp'.kind \in {"update_status", "cancel"} /\ resp'.code = 403)
              => DatabaseUnchanged /\ slots' = slots
        /\ TransitionWritten =>
              LET o == resp'.order
                  by == history'[o][Len(history'[o])].by
              IN by = orders[o].user \/ by \in {"sam", "stan"} ]_vars

\* C18 witness: a cancel by a user who can see the order but is neither its
\* owner nor staff was answered 403
C18_Witness ==
    /\ resp.kind = "cancel"
    /\ resp.code = 403
    /\ resp.order \in OrderIds
    /\ orders[resp.order].status \in {"pending", "confirmed"}

\* C19: a create request that fails validation (no cart, empty cart, invalid
\* address) is answered with a 4xx status.
C19_ValidationFailuresAre4xx ==
    (/\ resp.kind = "create"
     /\ resp.arg \in {"Cart not found", "Cart is empty", "Invalid shipping address"})
        => resp.code \in 400..499

\* C20: an edit of a product (price, name) leaves every order item's
\* unit_price, total_price and product_name, and every order's subtotal and
\* total_amount, as they were.
C20_CatalogEditKeepsOrderLines ==
    [][ resp'.kind = "edit_product" =>
          /\ \A o \in OrderIds : items'[o] = items[o]
          /\ \A o \in OrderIds :
                orders[o].exists =>
                    /\ orders'[o].exists
                    /\ orders'[o].subtotal = orders[o].subtotal
                    /\ orders'[o].total_amount = orders[o].total_amount ]_vars

\* C20 witness: the product of an existing order line was renamed and
\* repriced after the order was made
C20_Witness ==
    /\ resp.kind = "edit_product"
    /\ \E o \in OrderIds :
          /\ orders[o].exists
          /\ \E it \in items[o] :
                /\ it.line = resp.arg
                /\ products[it.line].name # it.product_name
                /\ products[it.line].price = 400

\* the milestone timestamp that belongs to a status
MilestoneOf(st) ==
    CASE st = "confirmed" -> "confirmed_at"
      [] st = "shipped" -> "shipped_at"
      [] st = "delivered" -> "delivered_at"
      [] st = "cancelled" -> "cancelled_at"

Milestones == {"confirmed_at", "shipped_at", "delivered_at", "cancelled_at"}

\* C22: a step that writes an accepted transition into confirmed, shipped,
\* delivered or cancelled leaves the matching timestamp set, and no step
\* changes or clears a milestone timestamp of an order that is already set.
C22_MilestonesSetOnceAndKept ==
    [][ /\ (TransitionWritten
              /\ orders'[resp'.order].status
                    \in {"confirmed", "shipped", "delivered", "cancelled"})
              => orders'[resp'.order][MilestoneOf(orders'[resp'.order].status)] # None
        /\ \A o \in OrderIds :
              (orders[o].exists /\ orders'[o].exists) =>
                  \A f \in Milestones :
                      orders[o][f] # None => orders'[o][f] = orders[o][f] ]_vars

NotFailedRefunds(o) ==
    SumAmounts(SelectStatus(refunds[o], {"pending", "processing", "completed"}))

\* C26: for every order the amounts of its refund rows that are pending,
\* processing or completed sum to at most the order's total_amount.
C26_OpenRefundsWithinTotal ==
    \A o \in OrderIds : orders[o].exists => NotFailedRefunds(o) <= orders[o].total_amount

Fulfilment == {"confirmed", "processing", "shipped", "delivered"}

\* C27: no step takes an order that is not paid from a status outside
\* confirmed, processing, shipped, delivered into one of these.
C27_UnpaidNeverFulfilled ==
    [][ \A o \in OrderIds :
          (/\ orders[o].exists
           /\ orders'[o].exists
           /\ orders[o].status \notin Fulfilment
           /\ orders'[o].payment_status # "paid")
            => orders'[o].status \notin Fulfilment ]_vars

\* C28: a step that takes a paid order into status cancelled adds, in the
\* same step, a refund row for the order's total_amount.
C28_PaidCancelledHasRefund ==
    [][ \A o \in OrderIds :
          (/\ orders[o].exists
           /\ orders'[o].exists
           /\ orders[o].status # "cancelled"
           /\ orders'[o].status = "cancelled"
           /\ orders'[o].payment_status = "paid")
            => /\ Len(refunds'[o]) = Len(refunds[o]) + 1
               /\ refunds'[o][Len(refunds'[o])].amount = orders'[o].total_amount ]_vars

\* C29: whenever a step changes the status of an order, the old and the new
\* status are an edge of the transition table.
C29_EveryStatusChangeIsAnEdge ==
    [][ \A o \in OrderIds :
          (/\ orders[o].exists
           /\ orders'[o].exists
           /\ orders'[o].status # orders[o].status)
            => orders'[o].status \in TransitionTable(orders[o].status) ]_vars

\* the subtotal the claim describes: unit price (product price plus the
\* variant's adjustment) times quantity, over the lines of the cart
ScenarioSubtotal(c) ==
    LET line(l) == (products[l].price + (IF l = "p2" THEN 100 ELSE 0)) * c.qty[l]
    IN line("p1") + line("p2")

\* C21: the amounts create computes for an order are subtotal = sum of unit
\* price times quantity over the cart lines, tax = 12.5% of the subtotal and
\* total = subtotal + the request's shipping cost + tax (qty 2 at 10.00 and
\* qty 1 at 5.00 with shipping 3.00: 25.00, 3.125, 31.125).
C21_AmountsOfNewOrder ==
    resp.kind = "create_order_from_cart" =>
        LET a == resp.arg.amounts
            sub == ScenarioSubtotal(carts[resp.arg.user])
        IN /\ a.subtotal = sub
           /\ a.tax_amount = sub * 125
           /\ a.total_amount = sub * 1000 + resp.arg.shipping_cost * 1000 + sub * 125

\* the number of collisions after which generation is to give up
RetryLimit == MaxDraws - 1

\* C24: a generation of an order number that has collided RetryLimit times
\* does not go round again: it never counts more collisions than that.
C24_RetriesBounded ==
    \A r \in Reqs :
        slots[r].kind = "generate_order_number" => slots[r].arg <= RetryLimit

====
